---- MODULE Spec2Model ----
(***************************************************************************)
(* Model of scripts/ensue-cli.py: the pipx bootstrap wrapper, the          *)
(* configuration resolver, the one-shot MCP session and the CLI driver.    *)
(*                                                                         *)
(* Text is modelled as a sequence of symbols: characters for tokens and    *)
(* key files, JSON lexemes for the argument text.  Python values are       *)
(* tagged records so that None, "" and a non-empty string stay distinct.   *)
(***************************************************************************)
EXTENDS Integers, Sequences, FiniteSets

VARIABLES
    procs,       \* the processes started so far, oldest first (records, see Proc)
    pipx_pyz,    \* script_dir/pipx.pyz on disk: "absent" or "present"
    fetches,     \* downloads of pipx.pyz attempted, in order, with their outcome
    runs,        \* subprocess.run calls that re-execute the script, in order
    environ,     \* ENSUE_URL, ENSUE_API_KEY, ENSUE_TOKEN of the invocation
    files,       \* contents of the two fallback key files (PyNone: no file)
    consulted,   \* key files on which exists() was called
    server,      \* how the remote end behaves during this invocation
    transport,   \* [opens, closes] of streamablehttp_client
    session,     \* [opens, closes] of ClientSession
    requests,    \* requests issued on the session, in order
    stdout,      \* what was printed to standard output, in order
    stderr       \* what was printed to standard error, in order

vars == <<procs, pipx_pyz, fetches, runs, environ, files, consulted, server,
          transport, session, requests, stdout, stderr>>

----------------------------------------------------------------------------
(* Bounds of the model *)

MaxArgLen == 5      \* lexemes in the JSON argument text
MaxFileLen == 2     \* characters in a key file
MaxContent == 2     \* items in a result's content
MaxProcs == 3       \* processes in a chain of re-executions

----------------------------------------------------------------------------
(* Python values *)

PyNone == [t |-> "None"]
PyStr(s) == [t |-> "str", s |-> s]

\* Python truthiness of an Optional[str]
Truthy(v) == v.t = "str" /\ v.s # <<>>

\* a or b
PyOr(a, b) == IF Truthy(a) THEN a ELSE b

\* os.environ.get(name, default)
EnvGet(env, name, default) == IF env[name].t = "None" THEN default ELSE env[name]

Whitespace == {" ", "\n"}

RECURSIVE lstrip(_)
lstrip(s) ==
    IF s # <<>> /\ Head(s) \in Whitespace THEN lstrip(Tail(s)) ELSE s

RECURSIVE rstrip(_)
rstrip(s) ==
    IF s # <<>> /\ s[Len(s)] \in Whitespace
    THEN rstrip(SubSeq(s, 1, Len(s) - 1))
    ELSE s

\* str.strip()
strip(s) == rstrip(lstrip(s))

SeqsUpTo(S, n) == UNION {[1..k -> S] : k \in 0..n}

----------------------------------------------------------------------------
(* json.loads on a text of JSON lexemes *)

Lexemes == {"{", "}", ":", ",", "\"limit\"", "5", "NaN"}

StrLexemes == {"\"limit\""}

\* parsed values: int 5, float nan, str, dict (members in insertion order)
JNum == [t |-> "int", v |-> "5"]
JNaN == [t |-> "float", v |-> "nan"]
JStr(x) == [t |-> "str", lex |-> x]
JObj(m) == [t |-> "dict", m |-> m]

JSONDecodeError == [ok |-> FALSE]
Parsed(v, n) == [ok |-> TRUE, v |-> v, n |-> n]

\* dict[k] = v on a dict held as a sequence of <<key, value>> in insertion order
DictSet(m, k, v) ==
    IF \E i \in 1..Len(m) : m[i][1] = k
    THEN [i \in 1..Len(m) |-> IF m[i][1] = k THEN <<k, v>> ELSE m[i]]
    ELSE Append(m, <<k, v>>)

RECURSIVE scan_once(_, _)
RECURSIVE parse_object(_, _, _)

\* the value starting at lexeme i: [ok, v, n] with n the next position
scan_once(s, i) ==
    IF i > Len(s) THEN JSONDecodeError
    ELSE IF s[i] \in StrLexemes THEN Parsed(JStr(s[i]), i + 1)
    ELSE IF s[i] = "5" THEN Parsed(JNum, i + 1)
    ELSE IF s[i] = "NaN" THEN Parsed(JNaN, i + 1)
    ELSE IF s[i] = "{" THEN
        IF i + 1 <= Len(s) /\ s[i + 1] = "}"
        THEN Parsed(JObj(<<>>), i + 2)
        ELSE parse_object(s, i + 1, <<>>)
    ELSE JSONDecodeError

\* the members of an object from lexeme i on, after "{" or ","
parse_object(s, i, acc) ==
    IF i + 1 > Len(s) \/ s[i] \notin StrLexemes \/ s[i + 1] # ":"
    THEN JSONDecodeError
    ELSE LET r == scan_once(s, i + 2) IN
         IF ~r.ok THEN JSONDecodeError
         ELSE IF r.n > Len(s) THEN JSONDecodeError
         ELSE IF s[r.n] = "}" THEN Parsed(JObj(DictSet(acc, s[i], r.v)), r.n + 1)
         ELSE IF s[r.n] = "," THEN parse_object(s, r.n + 1, DictSet(acc, s[i], r.v))
         ELSE JSONDecodeError

\* json.loads(text): the value, or JSONDecodeError (also on trailing lexemes)
loads(s) ==
    LET r == scan_once(s, 1) IN
    IF r.ok /\ r.n = Len(s) + 1 THEN r ELSE JSONDecodeError

----------------------------------------------------------------------------
(* Configuration Resolver *)

DEFAULT_URL == <<"https://api.ensue-network.ai/">>

KeyFiles == {"plugin_key_file", "skill_key_file"}

Config(kind, url, token, seen, exc) ==
    [kind |-> kind, url |-> url, token |-> token, consulted |-> seen, exc |-> exc]

\* get_config with ENSUE_TOKEN read before ENSUE_API_KEY
get_config_token_first(env, fs) ==
    LET url == EnvGet(env, "ENSUE_URL", PyStr(DEFAULT_URL))
        token == PyOr(env.ENSUE_TOKEN, env.ENSUE_API_KEY)
    IN  IF Truthy(token) THEN Config("return", url, token, {}, "")
        ELSE LET token1 == IF fs.plugin_key_file.t # "None"
                           THEN PyStr(strip(fs.plugin_key_file.s))
                           ELSE token
             IN  IF fs.skill_key_file.t # "None"
                 THEN Config("raise", url, token1, KeyFiles,
                             "name 'skil_key_file' is not defined")
                 ELSE IF ~Truthy(token1)
                 THEN Config("exit", url, token1, KeyFiles, "")
                 ELSE Config("return", url, token1, KeyFiles, "")

\* get_config without the check of lines 155-157
get_config_unchecked(env, fs) ==
    LET url == EnvGet(env, "ENSUE_URL", PyStr(DEFAULT_URL))
        token == PyOr(env.ENSUE_API_KEY, env.ENSUE_TOKEN)
    IN  IF Truthy(token) THEN Config("return", url, token, {}, "")
        ELSE LET token1 == IF fs.plugin_key_file.t # "None"
                           THEN PyStr(strip(fs.plugin_key_file.s))
                           ELSE token
             IN  IF fs.skill_key_file.t # "None"
                 THEN Config("raise", url, token1, KeyFiles,
                             "name 'skil_key_file' is not defined")
                 ELSE Config("return", url, token1, KeyFiles, "")

\* get_config(): "return" (url, token), "exit" (sys.exit(1) after the JSON error)
\* or "raise" (an exception leaves the function).  Line 153 reads the name
\* skil_key_file, which is bound nowhere: evaluating it raises NameError.
get_config(env, fs) ==
    LET url == EnvGet(env, "ENSUE_URL", PyStr(DEFAULT_URL))
        token == PyOr(env.ENSUE_API_KEY, env.ENSUE_TOKEN)
    IN  IF Truthy(token) THEN Config("return", url, token, {}, "")
        ELSE LET token1 == IF fs.plugin_key_file.t # "None"
                           THEN PyStr(strip(fs.plugin_key_file.s))
                           ELSE token
             IN  IF fs.skill_key_file.t # "None"
                 THEN Config("raise", url, token1, KeyFiles,
                             "name 'skil_key_file' is not defined")
                 ELSE IF ~Truthy(token1)
                 THEN Config("exit", url, token1, KeyFiles, "")
                 ELSE Config("return", url, token1, KeyFiles, "")

----------------------------------------------------------------------------
(* Results and their formatting *)

TextItem(x) == [type |-> "text", text |-> x]
ImageItem == [type |-> "image", text |-> ""]
Items == {TextItem("a"), TextItem("b"), ImageItem}

\* a CallToolResult carries content; a dict or a bare object has no such attribute
CallToolResult(c) == [cls |-> "CallToolResult", content |-> c]
NoResult == [cls |-> "None", content |-> <<>>]
Results ==
    {CallToolResult(c) : c \in SeqsUpTo(Items, MaxContent)}
        \cup {[cls |-> "dict", content |-> <<>>], [cls |-> "object", content |-> <<>>]}

HasContent(r) == r.cls = "CallToolResult"
HasText(item) == item.type = "text"

\* json.dumps(result, default=str)
dumps(r) ==
    [kind |-> "json",
     value |-> IF r.cls = "dict" THEN r ELSE [cls |-> "str", of |-> r]]

\* the loop of format_result over result.content, from item i on
RECURSIVE scan_content(_, _)
scan_content(c, i) ==
    IF i > Len(c) THEN [found |-> FALSE, text |-> ""]
    ELSE IF HasText(c[i]) THEN [found |-> TRUE, text |-> c[i].text]
    ELSE scan_content(c, i + 1)

\* format_result whose loop does not return at the first text item
format_result_last_text(r) ==
    LET texts == IF HasContent(r)
                 THEN {k \in 1..Len(r.content) : HasText(r.content[k])}
                 ELSE {}
    IN  IF texts # {}
        THEN [kind |-> "text",
              text |-> r.content[CHOOSE k \in texts : \A j \in texts : j <= k].text]
        ELSE dumps(r)

\* format_result(result)
format_result(r) ==
    LET hit == IF HasContent(r) THEN scan_content(r.content, 1)
               ELSE [found |-> FALSE, text |-> ""]
    IN  IF hit.found THEN [kind |-> "text", text |-> hit.text] ELSE dumps(r)

----------------------------------------------------------------------------
(* Processes *)

Script == "ensue-cli.py"
Commands == {"list_keys", "get_memory"}

Marker == PyStr(<<"1">>)

\* a process at its first statement; argv[1] is sys.argv[0], argv[2] sys.argv[1], ...
NewProc(marker, argv) ==
    [PIPX_RUNNING |-> marker, argv |-> argv, pc |-> "start",
     returncode |-> 0, exited_at |-> "",
     command |-> "", args_str |-> <<>>, arguments |-> PyNone,
     url |-> PyNone, token |-> PyNone, result |-> NoResult, exc |-> ""]

\* sys.exit(code), or the interpreter ending with that status; exited_at keeps
\* the statement the process ended in
Exit(p, code) == [p EXCEPT !.pc = "exited", !.returncode = code, !.exited_at = p.pc]

\* the process that is running: the one started last
Me == Len(procs)
At(label) == procs[Me].pc = label
Goto(label) == procs' = [procs EXCEPT ![Me].pc = label]

Text(msg) == [kind |-> "text", msg |-> msg]
Emit(stream, entry) == Append(stream, entry)

\* the environment copied without setting PIPX_RUNNING
ChildEnv_Unmarked(marker) == marker

\* lines 70-72: the environment handed to the re-executed script
ChildEnv(marker) == Marker

\* line 74: the command line handed to pipx run
ChildArgv(argv) == <<Script>> \o Tail(argv)

Net == <<server, transport, session, requests>>
Cfg == <<environ, files, consulted>>
Boot == <<pipx_pyz, fetches, runs>>
Out == <<stdout, stderr>>

----------------------------------------------------------------------------
(* Dependency Bootstrapper *)

\* lines 81-82 and 62-63: the wrapper runs unless PIPX_RUNNING is truthy
ModuleStart ==
    /\ At("start")
    /\ Goto(IF Truthy(procs[Me].PIPX_RUNNING) THEN "main_async" ELSE "ensure_pipx")
    /\ UNCHANGED <<Boot, Cfg, Net, Out>>

\* lines 28-36: the existence check of ensure_pipx
EnsurePipx ==
    /\ At("ensure_pipx")
    /\ IF pipx_pyz = "present"
       THEN Goto("subprocess_run") /\ UNCHANGED stderr
       ELSE /\ Goto("urlretrieve")
            /\ stderr' = Emit(stderr, Text("Downloading pipx standalone zipapp..."))
    /\ UNCHANGED <<Boot, Cfg, Net, stdout>>

UrllibOutcomes == {"ok", "import_error", "fetch_error", "chmod_error"}

\* lines 37-45 and, when the import failed, 46-56: url is then unbound, reading
\* it at line 48 raises inside the inner try and curl is never started
Urlretrieve ==
    /\ At("urlretrieve")
    /\ \E outcome \in UrllibOutcomes :
        /\ fetches' = Append(fetches, [method |-> "urllib", outcome |-> outcome])
        /\ pipx_pyz' = IF outcome \in {"ok", "chmod_error"} THEN "present" ELSE pipx_pyz
        /\ CASE outcome = "ok" ->
                 Goto("subprocess_run") /\ UNCHANGED stderr
             [] outcome = "import_error" ->
                 /\ procs' = [procs EXCEPT ![Me] = Exit(@, 1)]
                 /\ stderr' = stderr \o <<Text("Failed to download pipx"),
                                           Text("Trying with curl..."),
                                           Text("Failed to download pipx with curl")>>
             [] OTHER ->
                 /\ Goto("curl")
                 /\ stderr' = stderr \o <<Text("Failed to download pipx"),
                                           Text("Trying with curl...")>>
    /\ UNCHANGED <<runs, Cfg, Net, stdout>>

CurlOutcomes == {"ok", "fetch_error", "chmod_error"}

\* the curl fallback without the sys.exit(1) of line 56
Curl_NoExit ==
    /\ At("curl")
    /\ \E outcome \in CurlOutcomes :
        /\ fetches' = Append(fetches, [method |-> "curl", outcome |-> outcome])
        /\ pipx_pyz' = IF outcome \in {"ok", "chmod_error"} THEN "present" ELSE pipx_pyz
        /\ Goto("subprocess_run")
        /\ stderr' = IF outcome = "ok" THEN stderr
                     ELSE Emit(stderr, Text("Failed to download pipx with curl"))
    /\ UNCHANGED <<runs, Cfg, Net, stdout>>

\* lines 46-56
Curl ==
    /\ At("curl")
    /\ \E outcome \in CurlOutcomes :
        /\ fetches' = Append(fetches, [method |-> "curl", outcome |-> outcome])
        /\ pipx_pyz' = IF outcome \in {"ok", "chmod_error"} THEN "present" ELSE pipx_pyz
        /\ IF outcome = "ok"
           THEN Goto("subprocess_run") /\ UNCHANGED stderr
           ELSE /\ procs' = [procs EXCEPT ![Me] = Exit(@, 1)]
                /\ stderr' = Emit(stderr, Text("Failed to download pipx with curl"))
    /\ UNCHANGED <<runs, Cfg, Net, stdout>>

\* lines 66-76: subprocess.run(cmd, env=env).  pipx either starts the script
\* (a new process) or ends with a status of its own before the script runs.
SubprocessRun ==
    /\ At("subprocess_run")
    /\ Len(procs) < MaxProcs
    /\ LET env == ChildEnv(procs[Me].PIPX_RUNNING)
           cmd == ChildArgv(procs[Me].argv)
       IN  /\ runs' = Append(runs, [cmd |-> cmd, PIPX_RUNNING |-> env])
           /\ \/ procs' = Append([procs EXCEPT ![Me].pc = "wait"], NewProc(env, cmd))
              \/ procs' = [procs EXCEPT ![Me] = Exit(@, 1)]
    /\ UNCHANGED <<pipx_pyz, fetches, Cfg, Net, Out>>

\* line 77: sys.exit(result.returncode) once the re-executed script has ended
SysExit ==
    /\ \E i \in 1..(Len(procs) - 1) :
        /\ procs[i].pc = "wait"
        /\ procs[i + 1].pc = "exited"
        /\ procs' = [procs EXCEPT ![i] = Exit(@, procs[i + 1].returncode)]
    /\ UNCHANGED <<Boot, Cfg, Net, Out>>

----------------------------------------------------------------------------
(* CLI Driver: arguments and configuration *)

\* the JSON objects written to standard error; error is the message in pieces
UsageError ==
    [kind |-> "json", keys |-> {"error", "example"},
     error |-> <<"Usage: ensue-cli.py <command> [json_args]">>]
ArgumentParseError(text) ==
    [kind |-> "json", keys |-> {"error", "received"},
     error |-> <<"Invalid JSON arguments: ", "JSONDecodeError">>, received |-> text]
ConfigurationError(msg) ==
    [kind |-> "json", keys |-> {"error"}, error |-> msg]
RemoteError(msg, command, arguments) ==
    [kind |-> "json", keys |-> {"error", "command", "arguments"},
     error |-> <<msg>>, command |-> command, arguments |-> arguments]

\* line 184: the argument text, "{}" when there is no second argument
args_text(argv) == IF Len(argv) > 2 THEN argv[3] ELSE <<"{", "}">>

\* lines 176-194: usage check, command and argument text, json.loads
ParseArgv ==
    /\ At("main_async")
    /\ IF Len(procs[Me].argv) < 2
       THEN /\ procs' = [procs EXCEPT ![Me] = Exit(@, 1)]
            /\ stderr' = Emit(stderr, UsageError)
       ELSE LET command == procs[Me].argv[2]
                args_str == args_text(procs[Me].argv)
                parsed == loads(args_str)
            IN  IF parsed.ok
                THEN /\ procs' = [procs EXCEPT ![Me].command = command,
                                               ![Me].args_str = args_str,
                                               ![Me].arguments = parsed.v,
                                               ![Me].pc = "get_config"]
                     /\ UNCHANGED stderr
                ELSE /\ procs' = [procs EXCEPT ![Me] =
                                     Exit([@ EXCEPT !.command = command,
                                                    !.args_str = args_str], 1)]
                     /\ stderr' = Emit(stderr, ArgumentParseError(args_str))
    /\ UNCHANGED <<Boot, Cfg, Net, stdout>>

\* lines 196-203 with get_config (139-159): SystemExit passes through, any
\* other exception is reported as a configuration error
GetConfig ==
    /\ At("get_config")
    /\ LET c == get_config(environ, files) IN
        /\ consulted' = consulted \cup c.consulted
        /\ CASE c.kind = "return" ->
                 /\ procs' = [procs EXCEPT ![Me].url = c.url, ![Me].token = c.token,
                                           ![Me].pc = "call_tool"]
                 /\ UNCHANGED stderr
             [] c.kind = "exit" ->
                 /\ procs' = [procs EXCEPT ![Me] = Exit(@, 1)]
                 /\ stderr' = Emit(stderr, ConfigurationError(
                        <<"ENSUE_API_KEY or ENSUE_TOKEN env var not set">>))
             [] c.kind = "raise" ->
                 /\ procs' = [procs EXCEPT ![Me] = Exit(@, 1)]
                 /\ stderr' = Emit(stderr, ConfigurationError(
                        <<"Configuration error: ", c.exc>>))
    /\ UNCHANGED <<Boot, environ, files, Net, stdout>>

----------------------------------------------------------------------------
(* Remote Session Client *)

Request(method, name, arguments) ==
    [method |-> method, name |-> name, arguments |-> arguments]

Raise(msg, label) == procs' = [procs EXCEPT ![Me].exc = msg, ![Me].pc = label]

\* lines 127 and 105: entering streamablehttp_client
OpenTransport ==
    /\ At("call_tool")
    /\ IF server.connect
       THEN /\ transport' = [transport EXCEPT !.opens = @ + 1]
            /\ Goto("ClientSession")
       ELSE /\ Raise("ConnectError", "except")
            /\ UNCHANGED transport
    /\ UNCHANGED <<Boot, Cfg, server, session, requests, Out>>

\* line 106: entering ClientSession
OpenSession ==
    /\ At("ClientSession")
    /\ IF server.enter
       THEN /\ session' = [session EXCEPT !.opens = @ + 1]
            /\ Goto("initialize")
       ELSE /\ Raise("SessionError", "close_transport")
            /\ UNCHANGED session
    /\ UNCHANGED <<Boot, Cfg, server, transport, requests, Out>>

\* line 107: the initialize handshake
Initialize ==
    /\ At("initialize")
    /\ requests' = Append(requests, Request("initialize", "", PyNone))
    /\ IF server.initialize
       THEN Goto("session_call_tool")
       ELSE Raise("InitializeError", "close_session")
    /\ UNCHANGED <<Boot, Cfg, server, transport, session, Out>>

\* session.call_tool issued a second time when the first raised
SessionCallTool_Retry ==
    /\ At("session_call_tool")
    /\ LET call == Request("tools/call", procs[Me].command, procs[Me].arguments) IN
       requests' = IF server.call.raises THEN requests \o <<call, call>>
                   ELSE Append(requests, call)
    /\ IF server.call.raises
       THEN Raise("ToolError", "close_session")
       ELSE procs' = [procs EXCEPT ![Me].result = server.call.result,
                                   ![Me].pc = "close_session"]
    /\ UNCHANGED <<Boot, Cfg, server, transport, session, Out>>

\* line 128: session.call_tool(name, arguments)
SessionCallTool ==
    /\ At("session_call_tool")
    /\ requests' = Append(requests,
            Request("tools/call", procs[Me].command, procs[Me].arguments))
    /\ IF server.call.raises
       THEN Raise("ToolError", "close_session")
       ELSE procs' = [procs EXCEPT ![Me].result = server.call.result,
                                   ![Me].pc = "close_session"]
    /\ UNCHANGED <<Boot, Cfg, server, transport, session, Out>>

\* the session closed on the normal path only, not when an exception passes
CloseSession_OnReturnOnly ==
    /\ At("close_session")
    /\ session' = IF procs[Me].exc = "" THEN [session EXCEPT !.closes = @ + 1]
                  ELSE session
    /\ IF server.exit_session \/ procs[Me].exc # ""
       THEN Goto("close_transport")
       ELSE Raise("SessionCloseError", "close_transport")
    /\ UNCHANGED <<Boot, Cfg, server, transport, requests, Out>>

\* line 106: leaving the ClientSession block, by return or by exception
CloseSession ==
    /\ At("close_session")
    /\ session' = [session EXCEPT !.closes = @ + 1]
    /\ IF server.exit_session
       THEN Goto("close_transport")
       ELSE Raise("SessionCloseError", "close_transport")
    /\ UNCHANGED <<Boot, Cfg, server, transport, requests, Out>>

\* line 105: leaving the streamablehttp_client block, by return or by exception
CloseTransport ==
    /\ At("close_transport")
    /\ transport' = [transport EXCEPT !.closes = @ + 1]
    /\ IF server.exit_transport
       THEN Goto(IF procs[Me].exc = "" THEN "format_result" ELSE "except")
       ELSE Raise("TransportCloseError", "except")
    /\ UNCHANGED <<Boot, Cfg, server, session, requests, Out>>

----------------------------------------------------------------------------
(* CLI Driver: output *)

\* lines 208-209, then main() returns and the interpreter ends with status 0
PrintResult ==
    /\ At("format_result")
    /\ stdout' = Emit(stdout, format_result(procs[Me].result))
    /\ procs' = [procs EXCEPT ![Me] = Exit(@, 0)]
    /\ UNCHANGED <<Boot, Cfg, Net, stderr>>

\* the handler without the sys.exit(1) of line 216
Except_NoExit ==
    /\ At("except")
    /\ stderr' = Emit(stderr,
            RemoteError(procs[Me].exc, procs[Me].command, procs[Me].arguments))
    /\ procs' = [procs EXCEPT ![Me] = Exit(@, 0)]
    /\ UNCHANGED <<Boot, Cfg, Net, stdout>>

\* lines 210-216
Except ==
    /\ At("except")
    /\ stderr' = Emit(stderr,
            RemoteError(procs[Me].exc, procs[Me].command, procs[Me].arguments))
    /\ procs' = [procs EXCEPT ![Me] = Exit(@, 1)]
    /\ UNCHANGED <<Boot, Cfg, Net, stdout>>

----------------------------------------------------------------------------
(* Invocations *)

Markers == {PyNone, PyStr(<<>>), Marker, PyStr(<<"0">>)}

ArgTexts == SeqsUpTo(Lexemes, MaxArgLen)

Argvs ==
    {<<Script>>}
        \cup {<<Script, c>> : c \in Commands}
        \cup {<<Script, "list_keys", text>> : text \in ArgTexts}
        \cup {<<Script, c, <<"5">>, <<"}">> >> : c \in Commands}

Envs ==
    [ENSUE_URL : {PyNone, PyStr(<<>>), PyStr(<<"http://localhost/">>)},
     ENSUE_API_KEY : {PyNone, PyStr(<<>>), PyStr(<<"a", "b", "c">>)},
     ENSUE_TOKEN : {PyNone, PyStr(<<>>), PyStr(<<" ">>), PyStr(<<"t">>)}]

FileContents == {PyNone} \cup {PyStr(s) : s \in SeqsUpTo({"k", " "}, MaxFileLen)}

Files == [plugin_key_file : FileContents, skill_key_file : FileContents]

Calls ==
    {[raises |-> TRUE, result |-> NoResult]}
        \cup {[raises |-> FALSE, result |-> r] : r \in Results}

Servers ==
    [connect : BOOLEAN, enter : BOOLEAN, initialize : BOOLEAN, call : Calls,
     exit_session : BOOLEAN, exit_transport : BOOLEAN]

\* the plain invocation: a key in the environment, no key files, a server that answers
PlainEnv ==
    [ENSUE_URL |-> PyNone, ENSUE_API_KEY |-> PyStr(<<"a", "b", "c">>), ENSUE_TOKEN |-> PyNone]
NoEnv == [ENSUE_URL |-> PyNone, ENSUE_API_KEY |-> PyNone, ENSUE_TOKEN |-> PyNone]
NoFiles == [plugin_key_file |-> PyNone, skill_key_file |-> PyNone]
PlainServer ==
    [connect |-> TRUE, enter |-> TRUE, initialize |-> TRUE,
     call |-> [raises |-> FALSE, result |-> CallToolResult(<<TextItem("a")>>)],
     exit_session |-> TRUE, exit_transport |-> TRUE]
DeafServer == [PlainServer EXCEPT !.initialize = FALSE]

PlainArgvs ==
    {<<Script>>, <<Script, "list_keys">>,
     <<Script, "list_keys", <<"{", "\"limit\"", ":", "5", "}">> >>,
     <<Script, "get_memory", <<"{">> >>}

\* every way of starting the script, plain in all else
BootInputs ==
    /\ procs \in {<<NewProc(m, a)>> : m \in Markers, a \in PlainArgvs}
    /\ pipx_pyz \in {"absent", "present"}
    /\ environ \in {PlainEnv, NoEnv}
    /\ files = NoFiles
    /\ server \in {PlainServer, DeafServer}

\* every command line, plain in all else
ArgvInputs ==
    /\ procs \in {<<NewProc(Marker, a)>> : a \in Argvs}
    /\ pipx_pyz = "present"
    /\ environ = PlainEnv
    /\ files = NoFiles
    /\ server = PlainServer

\* every environment and every pair of key files, plain in all else
ConfigInputs ==
    /\ procs \in {<<NewProc(Marker, a)>> : a \in PlainArgvs}
    /\ pipx_pyz = "present"
    /\ environ \in Envs
    /\ files \in Files
    /\ server = PlainServer

\* every behaviour of the remote end, plain in all else
ServerInputs ==
    /\ procs \in {<<NewProc(Marker, a)>> : a \in PlainArgvs}
    /\ pipx_pyz = "present"
    /\ environ = PlainEnv
    /\ files = NoFiles
    /\ server \in Servers

Init ==
    /\ BootInputs \/ ArgvInputs \/ ConfigInputs \/ ServerInputs
    /\ fetches = <<>>
    /\ runs = <<>>
    /\ consulted = {}
    /\ transport = [opens |-> 0, closes |-> 0]
    /\ session = [opens |-> 0, closes |-> 0]
    /\ requests = <<>>
    /\ stdout = <<>>
    /\ stderr = <<>>

Next ==
    \/ ModuleStart
    \/ EnsurePipx
    \/ Urlretrieve
    \/ Curl
    \/ SubprocessRun
    \/ SysExit
    \/ ParseArgv
    \/ GetConfig
    \/ OpenTransport
    \/ OpenSession
    \/ Initialize
    \/ SessionCallTool
    \/ CloseSession
    \/ CloseTransport
    \/ PrintResult
    \/ Except

Spec == Init /\ [][Next]_vars

----------------------------------------------------------------------------
(* Vocabulary of the properties *)

WrapperLabels == {"ensure_pipx", "urlretrieve", "curl", "subprocess_run", "wait"}
DriverLabels ==
    {"main_async", "get_config", "call_tool", "ClientSession", "initialize",
     "session_call_tool", "close_session", "close_transport", "format_result",
     "except"}
AfterParse == DriverLabels \ {"main_async"}
AfterConfig == AfterParse \ {"get_config"}

Exited(p) == p.pc = "exited"
\* the statement a process is at, or ended in
Where(p) == IF Exited(p) THEN p.exited_at ELSE p.pc

Marked(p) == Truthy(p.PIPX_RUNNING)
HasCommand(p) == Len(p.argv) >= 2
ParseFailed(p) == Exited(p) /\ p.exited_at = "main_async" /\ HasCommand(p)
Resolved(p) == Where(p) \in AfterConfig
ConfigFailed(p) == Exited(p) /\ p.exited_at = "get_config"
Last(q) == q[Len(q)]

NoEnvToken == ~Truthy(environ.ENSUE_API_KEY) /\ ~Truthy(environ.ENSUE_TOKEN)
Exists(f) == f.t = "str"

ToolCalls == {k \in 1..Len(requests) : requests[k].method = "tools/call"}
NoSession == transport.opens = 0 /\ session.opens = 0 /\ requests = <<>>
Established == server.connect /\ server.enter /\ server.initialize
NoRemoteFailure ==
    /\ Established
    /\ ~server.call.raises
    /\ server.exit_session
    /\ server.exit_transport

----------------------------------------------------------------------------
(* Configuration Resolver: properties *)

\* C1: with no token from ENSUE_API_KEY or ENSUE_TOKEN and a file at the second
\* fallback path (<repo_root>/.ensue-key), whether or not the first file exists,
\* get_config returns the second file's contents with surrounding whitespace
\* trimmed as the token, and the process takes no error path.  (Stated for a
\* second file that holds more than whitespace, so that there is a token to
\* return.)
C1_SecondKeyFileWins ==
    \A i \in DOMAIN procs :
        (/\ NoEnvToken
         /\ Exists(files.skill_key_file)
         /\ strip(files.skill_key_file.s) # <<>>
         /\ Resolved(procs[i]) \/ ConfigFailed(procs[i]))
        => /\ Resolved(procs[i])
           /\ procs[i].token = PyStr(strip(files.skill_key_file.s))

\* C4: when ENSUE_API_KEY is set to a non-empty value, the token get_config
\* returns is that value, whatever ENSUE_TOKEN is and whatever the two key
\* files hold, and neither key file is consulted.
C4_ApiKeyHasPriority ==
    \A i \in DOMAIN procs :
        (/\ Truthy(environ.ENSUE_API_KEY)
         /\ Where(procs[i]) \in AfterParse)
        => /\ ~ConfigFailed(procs[i])
           /\ consulted = {}
           /\ Resolved(procs[i]) => procs[i].token = environ.ENSUE_API_KEY

\* an API key wins over a set ENSUE_TOKEN and two existing key files
C4_Witness ==
    \E i \in DOMAIN procs :
        /\ Resolved(procs[i])
        /\ Truthy(environ.ENSUE_API_KEY)
        /\ Truthy(environ.ENSUE_TOKEN)
        /\ environ.ENSUE_TOKEN # environ.ENSUE_API_KEY
        /\ Exists(files.plugin_key_file) /\ Truthy(PyStr(strip(files.plugin_key_file.s)))
        /\ Exists(files.skill_key_file)
        /\ procs[i].token = environ.ENSUE_API_KEY

\* no token can be had: none in the environment, and every key file that
\* exists holds whitespace only
NoTokenAnywhere ==
    /\ NoEnvToken
    /\ \A f \in KeyFiles : Exists(files[f]) => strip(files[f].s) = <<>>

----------------------------------------------------------------------------
(* Remote Session Client and CLI Driver: properties *)

\* C2: the session is closed exactly once per invocation, whatever the
\* outcome (call_tool returned, the initialize handshake failed, call_tool
\* raised): when the process ends, closes equal opens for the session and for
\* the transport, and both are 1 once the handshake was attempted.
C2_SessionClosedOnce ==
    /\ transport.closes <= transport.opens /\ transport.opens <= 1
    /\ session.closes <= session.opens /\ session.opens <= 1
    /\ \A i \in DOMAIN procs :
          Exited(procs[i]) =>
              /\ transport.closes = transport.opens
              /\ session.closes = session.opens
              /\ requests # <<>> => transport.opens = 1 /\ session.opens = 1

\* call_tool raised, and the session and the transport were closed once each
C2_Witness ==
    \E i \in DOMAIN procs :
        /\ Exited(procs[i])
        /\ procs[i].exc = "ToolError"
        /\ transport = [opens |-> 1, closes |-> 1]
        /\ session = [opens |-> 1, closes |-> 1]

\* is the text JSON: json.loads takes it and it holds no NaN literal
IsJSONText(s) == loads(s).ok /\ \A k \in 1..Len(s) : s[k] # "NaN"

\* the argument-parse error was reported with the text received
ParseErrorReported(p) ==
    /\ ParseFailed(p)
    /\ p.returncode = 1
    /\ stderr # <<>>
    /\ Last(stderr).kind = "json"
    /\ "received" \in Last(stderr).keys
    /\ Last(stderr).received = args_text(p.argv)

\* C3: for every second argument that is valid JSON text, and when it is
\* omitted, no argument-parse error occurs; for every malformed text the error
\* occurs, the process exits with code 1 and the JSON error object on standard
\* error carries the argument text unchanged.
C3_ParseErrorIffMalformed ==
    \A i \in DOMAIN procs :
        LET p == procs[i] IN
        (HasCommand(p) /\ (Where(p) \in AfterParse \/ ParseFailed(p)))
        => IF IsJSONText(args_text(p.argv))
           THEN ~ParseFailed(p)
           ELSE ParseErrorReported(p)

\* the same for the texts json.loads and JSON agree on: those without NaN
C3_HoldsWithoutNaN ==
    \A i \in DOMAIN procs :
        LET p == procs[i] IN
        (/\ HasCommand(p)
         /\ Where(p) \in AfterParse \/ ParseFailed(p)
         /\ \A k \in 1..Len(args_text(p.argv)) : args_text(p.argv)[k] # "NaN")
        => IF IsJSONText(args_text(p.argv))
           THEN ~ParseFailed(p)
           ELSE ParseErrorReported(p)

\* the request that carries the command and the parsed arguments of process p
ExpectedCall(p) == Request("tools/call", p.argv[2], loads(args_text(p.argv)).v)

\* C5 as stated: whenever the arguments parse and the configuration resolves,
\* exactly one callTool is issued during the whole process, carrying the
\* command of argv[1] and the parsed arguments, and no listTools.
C5_ExactlyOneCall ==
    \A i \in DOMAIN procs :
        (Exited(procs[i]) /\ Resolved(procs[i]))
        => /\ Cardinality(ToolCalls) = 1
           /\ \A k \in ToolCalls : requests[k] = ExpectedCall(procs[i])
           /\ \A k \in 1..Len(requests) : requests[k].method # "tools/list"

\* C5 amended: at most one callTool is issued, it carries the command of
\* argv[1] and the parsed arguments unchanged, no listTools is issued; exactly
\* one is issued when transport, session and initialize handshake succeeded,
\* and none when one of them failed.
C5_AtMostOneCall ==
    /\ Cardinality(ToolCalls) <= 1
    /\ \A k \in 1..Len(requests) : requests[k].method # "tools/list"
    /\ \A i \in DOMAIN procs :
          /\ Resolved(procs[i]) =>
                \A k \in ToolCalls : requests[k] = ExpectedCall(procs[i])
          /\ (Exited(procs[i]) /\ Resolved(procs[i])) =>
                Cardinality(ToolCalls) = (IF Established THEN 1 ELSE 0)

\* list_keys {"limit":5} ended with one tools/call of just that
C5_Witness ==
    /\ \E i \in DOMAIN procs : Exited(procs[i]) /\ procs[i].returncode = 0
    /\ requests = <<Request("initialize", "", PyNone),
                    Request("tools/call", "list_keys",
                            JObj(<< <<"\"limit\"", JNum>> >>))>>

\* the text of the first text item of a content
FirstText(c) ==
    c[CHOOSE k \in 1..Len(c) :
          HasText(c[k]) /\ \A j \in 1..(k - 1) : ~HasText(c[j])].text

\* C6: for a result whose content holds a text item, format_result returns
\* the text of the first such item verbatim, skipping earlier items without
\* text; for any other result (no content, empty content, no text item) the
\* JSON serialization of the whole result, values that do not serialize
\* turned into their string form; and standard output is that text.
C6_FormatResult ==
    \A i \in DOMAIN procs :
        (Exited(procs[i]) /\ procs[i].exited_at = "format_result")
        => LET r == procs[i].result IN
           /\ r = server.call.result
           /\ stdout =
                << IF HasContent(r) /\ \E k \in 1..Len(r.content) : HasText(r.content[k])
                   THEN [kind |-> "text", text |-> FirstText(r.content)]
                   ELSE [kind |-> "json",
                         value |-> IF r.cls = "dict" THEN r
                                   ELSE [cls |-> "str", of |-> r]] >>

\* an image item is skipped and the text item after it is printed
C6_Witness ==
    /\ \E i \in DOMAIN procs :
          /\ Exited(procs[i])
          /\ procs[i].result = CallToolResult(<<ImageItem, TextItem("b")>>)
    /\ stdout = <<[kind |-> "text", text |-> "b"]>>

\* C7: a failure in configuration, connection or remote call is reported on
\* standard error as a JSON object {error, command, arguments}, or {error}
\* for a configuration failure, and the process exits non-zero; exit code 0
\* with text on standard output occurs only when no such failure happened.
C7_FailuresReported ==
    \A i \in DOMAIN procs :
        LET p == procs[i] IN
        (Exited(p) /\ p.exited_at \in AfterParse) =>
            /\ get_config(environ, files).kind # "return" => ConfigFailed(p)
            /\ ConfigFailed(p) =>
                  /\ p.returncode # 0
                  /\ Last(stderr).kind = "json"
                  /\ Last(stderr).keys = {"error"}
                  /\ stdout = <<>>
            /\ (Resolved(p) /\ ~NoRemoteFailure) => p.exited_at = "except"
            /\ p.exited_at = "except" =>
                  /\ p.returncode # 0
                  /\ Last(stderr).kind = "json"
                  /\ Last(stderr).keys = {"error", "command", "arguments"}
                  /\ Last(stderr).error = <<p.exc>> /\ p.exc # ""
                  /\ Last(stderr).command = p.argv[2]
                  /\ Last(stderr).arguments = loads(args_text(p.argv)).v
                  /\ stdout = <<>>
            /\ p.returncode = 0 =>
                  /\ p.exited_at = "format_result"
                  /\ Len(stdout) = 1
                  /\ NoRemoteFailure
                  /\ get_config(environ, files).kind = "return"
                  /\ \A k \in 1..Len(stderr) : stderr[k].kind # "json"

\* the remote call raised: exit 1 and {error, command, arguments} on stderr
C7_Witness ==
    \E i \in DOMAIN procs :
        /\ Exited(procs[i])
        /\ procs[i].returncode = 1
        /\ stdout = <<>>
        /\ stderr # <<>>
        /\ Last(stderr) = RemoteError("ToolError", "list_keys",
                                      JObj(<< <<"\"limit\"", JNum>> >>))

----------------------------------------------------------------------------
(* Dependency Bootstrapper: properties *)

\* C8 (the marker counts as set when PIPX_RUNNING is non-empty, which is what
\* lines 62 and 81 test): a process started without it re-executes the script once,
\* with all original arguments and the marker set, and never reaches the CLI
\* driver itself; a process started with the marker never runs the
\* bootstrapper and never re-executes; so the chain of re-executions has
\* depth at most one and comes to an end.
C8_ReexecOnce ==
    /\ Len(procs) <= 2
    /\ Len(runs) <= 1
    /\ \A i \in DOMAIN procs :
          LET p == procs[i] IN
          /\ Marked(p) => Where(p) \notin WrapperLabels
          /\ ~Marked(p) => Where(p) \notin DriverLabels
          /\ i > 1 => Marked(p) /\ p.argv = procs[1].argv /\ ~Marked(procs[1])
          /\ (~Marked(p) /\ (Where(p) = "wait" \/ Exited(p))) =>
                \/ p.exited_at \in {"urlretrieve", "curl"}
                \/ runs = <<[cmd |-> p.argv, PIPX_RUNNING |-> Marker]>>
    /\ (\A i \in DOMAIN procs : Exited(procs[i])) \/ ENABLED Next

\* an unmarked start ended with the status of the one marked child it started
C8_Witness ==
    /\ Len(procs) = 2
    /\ ~Marked(procs[1]) /\ Exited(procs[1]) /\ procs[1].returncode = 0
    /\ Len(procs[1].argv) = 3
    /\ procs[2].exited_at = "format_result"
    /\ Len(runs) = 1

FetchFailed(f) == f.outcome # "ok"

\* all that ensure_pipx tries has failed
FetchesFailed ==
    /\ fetches # <<>>
    /\ FetchFailed(Last(fetches))
    /\ Len(fetches) = 2 \/ fetches[1].outcome = "import_error"

C9_State ==
    /\ Len(fetches) <= 2
    /\ fetches # <<>> => fetches[1].method = "urllib"
    /\ Len(fetches) = 2 =>
          /\ fetches[2].method = "curl"
          /\ FetchFailed(fetches[1])
    /\ FetchesFailed =>
          /\ Len(procs) = 1
          /\ Exited(procs[1])
          /\ procs[1].returncode # 0
          /\ Last(stderr) = Text("Failed to download pipx with curl")
          /\ runs = <<>>

\* C9: in ensure_pipx curl is tried only after urllib has failed; when both
\* fail the process ends with a non-zero code and a message on standard error
\* and starts no subprocess; when pipx.pyz exists no fetch is attempted.
C9_FetchOrder ==
    [][/\ (At("ensure_pipx") /\ pipx_pyz = "present") =>
             fetches' = fetches /\ procs'[Me].pc = "subprocess_run"
       /\ fetches' # fetches =>
             /\ procs[Me].pc \in {"urlretrieve", "curl"}
             /\ runs = <<>>
       /\ (procs[Me].pc # "urlretrieve" /\ procs'[Me].pc = "urlretrieve") =>
             At("ensure_pipx") /\ pipx_pyz = "absent"
       /\ C9_State']_vars

\* urllib and curl both failed: exit 1, nothing re-executed
C9_Witness ==
    /\ Len(fetches) = 2
    /\ FetchFailed(fetches[1]) /\ FetchFailed(fetches[2])
    /\ Exited(procs[1]) /\ procs[1].returncode = 1
    /\ runs = <<>>

====
